---- MODULE Spec2Model ----
(***************************************************************************)
(* State-machine model of src/prefect_olist_pipeline.py: the Prefect flow  *)
(* data_processing_flow (extract_csv -> enrich_orders -> monthly           *)
(* aggregation -> sink), the rate cache file it keeps between runs and the *)
(* Prefect task engine's retry rule.                                       *)
(*                                                                         *)
(* Cells are tagged records so that values of different Python types can   *)
(* be compared.  Time-like cells have the shape [tag, y, m, d]; numeric    *)
(* cells and cache values have the shape [tag, v].  Floats are modelled by *)
(* small integers; the time of day of a timestamp is dropped, as .dt.date  *)
(* and .dt.to_period("M") drop it.                                         *)
(***************************************************************************)
EXTENDS Integers, Sequences, FiniteSets

VARIABLES
  str_keeps_na,  \* the installed pandas: does Series.astype(str) keep missing values
  orders_csv,    \* the CSV at csv_orders: [cols, rows]
  cache_file,    \* pipeline_outputs/rates_cache.json
  pc,            \* position of the flow
  attempts,      \* retries already used by the task run in progress
  df,            \* the DataFrame inside enrich_orders / the flow (enriched)
  cache,         \* enrich_orders' local variable cache
  loaded,        \* what load_rates_cache returned in this run
  dates,         \* the part of the list dates the for loop has still to visit
  calls,         \* finished fetch_rate_for_date task runs of this flow run
  saved,         \* outcome of save_rates_cache in this run: "no", "ok", "failed"
  monthly,       \* the flow's monthly DataFrame
  result,        \* the dict the flow returns
  prev_saved     \* the previous flow run wrote the cache file successfully

vars == <<str_keeps_na, orders_csv, cache_file, pc, attempts, df,
          cache, loaded, dates, calls, saved, monthly, result, prev_saved>>

(***************************************************************************)
(* Bounds and program constants                                            *)
(***************************************************************************)
MaxRows == 2

ExtractRetries == 1
FetchRetries == 2
UploadRetries == 2

(***************************************************************************)
(* Cells                                                                   *)
(***************************************************************************)
Stamp(y, m, d) == [tag |-> "ts", y |-> y, m |-> m, d |-> d]
BadText == [tag |-> "text", y |-> 0, m |-> 0, d |-> 0]
NoStamp == [tag |-> "nan", y |-> 0, m |-> 0, d |-> 0]
NaT == [tag |-> "NaT", y |-> 0, m |-> 0, d |-> 0]
NaTStr == [tag |-> "str:NaT", y |-> 0, m |-> 0, d |-> 0]
NAStr == [tag |-> "str:na", y |-> 0, m |-> 0, d |-> 0]
DateStr(y, m, d) == [tag |-> "str:date", y |-> y, m |-> m, d |-> d]

Null == [tag |-> "null", v |-> 0]
Num(n) == [tag |-> "num", v |-> n]
NumText(n) == [tag |-> "numtext", v |-> n]
Text == [tag |-> "text", v |-> 0]

\* Timestamps of the input: two days of one month and one day of the next.
Stamps == {Stamp(2020, 1, 1), Stamp(2020, 1, 2), Stamp(2020, 2, 1)}
TsCells == Stamps \cup {BadText}
PriceCells == {Null, Num(2)}
PaymentCells == {Num(3)}
\* What the rate API can answer: a rate, a body without the USD field, an error.
Responses == {Num(5), Null, Text}

TS == "order_purchase_timestamp"
InputCols == {TS, "price", "payment_value"}

(***************************************************************************)
(* Python dicts and the cache file                                         *)
(***************************************************************************)
EmptyMap == [k \in {} |-> Null]
Dict(f) == [kind |-> "dict", map |-> f]
List == [kind |-> "list", map |-> EmptyMap]
Keys(c) == DOMAIN c.map
\* Mutant: a failed fetch (None) is not written into the dict.
PutUnlessNone(c, k, x) ==
  IF x.tag = "null" THEN c
  ELSE [c EXCEPT !.map = [j \in (DOMAIN c.map) \cup {k} |->
                            IF j = k THEN x ELSE c.map[j]]]

Put(c, k, x) == [c EXCEPT !.map = [j \in (DOMAIN c.map) \cup {k} |->
                                      IF j = k THEN x ELSE c.map[j]]]

NoFile == [state |-> "absent", val |-> Dict(EmptyMap)]
Garbage == [state |-> "garbage", val |-> Dict(EmptyMap)]
Json(obj) == [state |-> "json", val |-> obj]

\* A cache file of earlier runs: a rate for one date of the input and for the
\* key "NaT", and two hand-edited entries whose values are JSON strings.
OldRates ==
  [k \in {DateStr(2020, 1, 1), NaTStr, DateStr(2019, 12, 30), DateStr(2019, 12, 31)} |->
     CASE k = DateStr(2019, 12, 30) -> NumText(7)
       [] k = DateStr(2019, 12, 31) -> Text
       [] OTHER -> Num(7)]

\* Cache files the first run can find.
InitialFiles ==
  { NoFile, Garbage, Json(List),
    Json(Dict(OldRates)) }

\* load_rates_cache: the parsed file, {} when it is absent or json.loads raises.
load_rates_cache(file) ==
  IF file.state = "json" THEN file.val ELSE Dict(EmptyMap)

\* save_rates_cache: the file after the call; a failed write is swallowed.
save_rates_cache(file, c, write_ok) ==
  IF write_ok THEN Json(c) ELSE file

(***************************************************************************)
(* pandas operations used by enrich_orders and the flow                    *)
(***************************************************************************)
\* pd.to_datetime(..., errors="coerce")
to_datetime(x) ==
  IF x.tag \in {"ts", "datetime"} THEN [x EXCEPT !.tag = "datetime"] ELSE NaT

\* .dt.date
dt_date(x) == IF x.tag = "datetime" THEN [x EXCEPT !.tag = "date"] ELSE NaT

\* .astype(str): a missing value becomes the text "NaT" (pandas before 3.0),
\* or stays missing where astype(str) gives the string dtype that keeps
\* missing values (pandas 3.0).  The repository pins no version.
astype_str(x, keeps_na) ==
  IF x.tag = "date" THEN DateStr(x.y, x.m, x.d)
  ELSE IF keeps_na THEN NAStr ELSE NaTStr

\* Mutant: the period keeps the day (a grouping by date).
to_period_D(x) ==
  IF x.tag = "datetime" THEN [tag |-> "period", y |-> x.y, m |-> x.m, d |-> x.d]
  ELSE NaT

\* .dt.to_period("M")
to_period_M(x) ==
  IF x.tag = "datetime" THEN [tag |-> "period", y |-> x.y, m |-> x.m, d |-> 0]
  ELSE NaT

RECURSIVE Unique(_, _)
Unique(s, seen) ==
  IF s = <<>> THEN <<>>
  ELSE IF Head(s) \in seen THEN Unique(Tail(s), seen)
       ELSE <<Head(s)>> \o Unique(Tail(s), seen \cup {Head(s)})

\* .dropna()
DropNa(s) == SelectSeq(s, LAMBDA x : x # NAStr)

\* .dropna().unique().tolist()
unique_dates(col) == Unique(DropNa(col), {})

\* Series.map(dict): the value under the key, NaN when the key is missing.
MapCache(c, k) == IF k \in Keys(c) THEN c.map[k] ELSE Null

\* float * float with missing values propagating
Times(a, r) == IF a.tag = "num" /\ r.tag = "num" THEN Num(a.v * r.v) ELSE Null

Range(s) == {s[i] : i \in DOMAIN s}

(***************************************************************************)
(* DataFrames                                                              *)
(***************************************************************************)
RATE == "brl_to_usd_rate"
USD == "payment_usd"

\* A row carries a cell for every column the program can create; the cells of
\* columns that are not in the frame's cols are fillers and are never read.
Row(ts, price, payment) ==
  [ts |-> ts, price |-> price, payment_value |-> payment, date_only |-> NAStr,
   rate |-> Null, usd |-> Null, month |-> NaT]

RowsFor(cols) ==
  { Row(t, p, v) :
      t \in (IF TS \in cols THEN TsCells ELSE {NoStamp}),
      p \in (IF "price" \in cols THEN PriceCells ELSE {Null}),
      v \in (IF "payment_value" \in cols THEN PaymentCells ELSE {Null}) }

SeqsUpTo(S, n) == UNION {[1..k -> S] : k \in 0..n}

Frame(cols, rows) == [cols |-> cols, rows |-> rows]
NoFrame == Frame({}, <<>>)
\* pd.DataFrame(): no columns, no rows
EmptyDataFrame == [cols |-> {}, rows |-> {}]

Column(f, name) == [i \in DOMAIN f.rows |-> f.rows[i][name]]

\* Mutant: the loop does not consult the cache.
InNever(c, k) == FALSE

\* "d in cache" for the object json.loads returned
In(c, k) == c.kind = "dict" /\ k \in Keys(c)

\* The body of fetch_rate_for_date on one answer of the API: every exception
\* is caught inside the body, so it returns and never raises.
fetch_rate_for_date(resp) ==
  [raised |-> FALSE, value |-> IF resp.tag = "num" THEN resp ELSE Null]

\* Prefect's task engine after one attempt of a task body.
TaskEngine(raised, used, retries) ==
  IF ~raised THEN "completed"
  ELSE IF used < retries THEN "retry" ELSE "failed"

\* Lines 75-81: values that are neither float nor None go through float().
Coerce(x) ==
  IF x.tag \in {"num", "null"} THEN x
  ELSE IF x.tag = "numtext" THEN Num(x.v) ELSE Null

CoerceAll(c) == Dict([k \in Keys(c) |-> Coerce(c.map[k])])

\* Mutant: the preference order of the two amount columns is swapped.
amt_col_swapped(cols) ==
  IF "payment_value" \in cols THEN "payment_value"
  ELSE IF "price" \in cols THEN "price" ELSE ""

\* Line 84
amt_col(cols) ==
  IF "price" \in cols THEN "price"
  ELSE IF "payment_value" \in cols THEN "payment_value" ELSE ""

payment_usd(row, col) ==
  IF col # "" THEN Times(row[col], row.rate) ELSE Null

RECURSIVE SumUsd(_, _)
\* groupby(...)["payment_usd"].sum() for one group: missing values are skipped.
SumUsd(rows, month) ==
  IF rows = <<>> THEN 0
  ELSE (IF Head(rows).month = month /\ Head(rows).usd.tag = "num"
          THEN Head(rows).usd.v ELSE 0) + SumUsd(Tail(rows), month)

\* groupby("month") drops the rows whose key is missing.
GroupKeys(rows) == {r.month : r \in Range(rows)} \ {NaT}

monthly_sales(f) ==
  [cols |-> {"month", "monthly_sales_usd"},
   rows |-> { [month |-> k, monthly_sales_usd |-> SumUsd(f.rows, k)] :
                k \in GroupKeys(f.rows) }]

NoResult == [status |-> "running", by |-> "", monthly |-> "", enriched |-> ""]
Raised(task) == [status |-> "raised", by |-> task, monthly |-> "", enriched |-> ""]

(***************************************************************************)
(* Initial state                                                           *)
(***************************************************************************)
Init ==
  /\ str_keeps_na \in BOOLEAN
  /\ \E cols \in SUBSET InputCols :
       \E rows \in SeqsUpTo(RowsFor(cols), MaxRows) :
         orders_csv = Frame(cols, rows)
  /\ cache_file \in InitialFiles
  /\ pc = "extract"
  /\ attempts = 0
  /\ df = NoFrame
  /\ cache = Dict(EmptyMap)
  /\ loaded = Dict(EmptyMap)
  /\ dates = <<>>
  /\ calls = <<>>
  /\ saved = "no"
  /\ monthly = EmptyDataFrame
  /\ result = NoResult
  /\ prev_saved = FALSE

inputs == <<str_keeps_na, orders_csv, prev_saved>>
enrich_locals == <<cache, loaded, dates, calls, saved>>

Fail(task) ==
  /\ pc' = "failed"
  /\ result' = Raised(task)
  /\ attempts' = 0

(***************************************************************************)
(* extract_csv, a task with retries=1                                      *)
(***************************************************************************)
ExtractCsv ==
  /\ pc = "extract"
  /\ df' = orders_csv
  /\ pc' = "enrich"
  /\ attempts' = 0
  /\ UNCHANGED <<inputs, cache_file, enrich_locals, monthly, result>>

\* pd.read_csv raises (the file cannot be read)
ExtractRaises ==
  /\ pc = "extract"
  /\ IF TaskEngine(TRUE, attempts, ExtractRetries) = "retry"
       THEN attempts' = attempts + 1 /\ UNCHANGED <<pc, result>>
       ELSE Fail("extract_csv")
  /\ UNCHANGED <<inputs, cache_file, df, enrich_locals, monthly>>

(***************************************************************************)
(* enrich_orders                                                           *)
(***************************************************************************)
\* Mutant: the skipped table keeps its amount as the derived amount.
SkipRowKeepsAmount(r) == [r EXCEPT !.rate = Null, !.usd = r.price]

\* Lines 62-63: both new columns are None
SkipRow(r) == [r EXCEPT !.rate = Null, !.usd = Null]

\* Lines 60-64: no timestamp column
EnrichSkip ==
  /\ pc = "enrich"
  /\ TS \notin df.cols
  /\ df' = Frame(df.cols \cup {RATE, USD},
                 [i \in DOMAIN df.rows |-> SkipRow(df.rows[i])])
  /\ pc' = "aggregate"
  /\ UNCHANGED <<inputs, cache_file, attempts, enrich_locals, monthly, result>>

ParseRow(r, keeps_na) ==
  [r EXCEPT !.ts = to_datetime(r.ts),
            !.date_only = astype_str(dt_date(to_datetime(r.ts)), keeps_na)]

\* Lines 65-69: parse, date_only, load the cache, list the dates
EnrichStart ==
  /\ pc = "enrich"
  /\ TS \in df.cols
  /\ LET parsed == Frame(df.cols \cup {"date_only"},
                         [i \in DOMAIN df.rows |-> ParseRow(df.rows[i], str_keeps_na)])
     IN /\ df' = parsed
        /\ dates' = unique_dates(Column(parsed, "date_only"))
  /\ cache' = load_rates_cache(cache_file)
  /\ loaded' = load_rates_cache(cache_file)
  /\ pc' = "loop"
  /\ UNCHANGED <<inputs, cache_file, attempts, calls, saved, monthly, result>>

\* Lines 70-71 for a date that is in the cache
SkipCachedDate ==
  /\ pc = "loop"
  /\ dates # <<>>
  /\ In(cache, Head(dates))
  /\ dates' = Tail(dates)
  /\ UNCHANGED <<inputs, cache_file, pc, attempts, df, cache, loaded, calls,
                 saved, monthly, result>>

\* Lines 70-73 for a date that is not: one attempt of the fetch task, then the
\* assignment cache[d] = ... once the task run has completed.
FetchRate ==
  /\ pc = "loop"
  /\ dates # <<>>
  /\ ~In(cache, Head(dates))
  /\ \E resp \in Responses :
       LET ret == fetch_rate_for_date(resp)
           next == TaskEngine(ret.raised, attempts, FetchRetries)
       IN CASE next = "retry" ->
                 /\ attempts' = attempts + 1
                 /\ UNCHANGED <<pc, cache, dates, calls, result>>
            [] next = "failed" ->
                 /\ Fail("fetch_rate_for_date")
                 /\ UNCHANGED <<cache, dates, calls>>
            [] next = "completed" ->
                 /\ calls' = Append(calls, [date |-> Head(dates),
                                            attempts |-> attempts + 1,
                                            value |-> ret.value])
                 /\ IF cache.kind = "dict"
                      THEN /\ cache' = Put(cache, Head(dates), ret.value)
                           /\ dates' = Tail(dates)
                           /\ attempts' = 0
                           /\ UNCHANGED <<pc, result>>
                      ELSE /\ Fail("enrich_orders")
                           /\ UNCHANGED <<cache, dates>>
  /\ UNCHANGED <<inputs, cache_file, df, loaded, saved, monthly>>

EnrichRow(r, c, col) ==
  LET rated == [r EXCEPT !.rate = MapCache(c, r.date_only)]
  IN [rated EXCEPT !.usd = payment_usd(rated, col), !.date_only = NAStr]

\* Lines 75-93: coerce, save, join the rates, derive the amount
EnrichFinish ==
  /\ pc = "loop"
  /\ dates = <<>>
  /\ IF cache.kind = "dict"
       THEN /\ cache' = CoerceAll(cache)
            /\ \E write_ok \in BOOLEAN :
                 /\ cache_file' = save_rates_cache(cache_file, CoerceAll(cache), write_ok)
                 /\ saved' = IF write_ok THEN "ok" ELSE "failed"
            /\ df' = Frame((df.cols \ {"date_only"}) \cup {RATE, USD},
                           [i \in DOMAIN df.rows |->
                              EnrichRow(df.rows[i], CoerceAll(cache), amt_col(df.cols))])
            /\ pc' = "aggregate"
            /\ UNCHANGED <<attempts, result>>
       ELSE /\ Fail("enrich_orders")
            /\ UNCHANGED <<cache, cache_file, saved, df>>
  /\ UNCHANGED <<inputs, loaded, dates, calls, monthly>>

(***************************************************************************)
(* data_processing_flow, lines 113-129                                     *)
(***************************************************************************)
MonthRow(r) ==
  [r EXCEPT !.ts = to_datetime(r.ts), !.month = to_period_M(to_datetime(r.ts))]

Aggregate ==
  /\ pc = "aggregate"
  /\ IF TS \in df.cols
       THEN LET m == Frame(df.cols \cup {"month"},
                           [i \in DOMAIN df.rows |-> MonthRow(df.rows[i])])
            IN /\ df' = m
               /\ monthly' = monthly_sales(m)
       ELSE /\ monthly' = EmptyDataFrame
            /\ df' = df
  /\ \E s3_bucket \in {"", "bucket"} :
       pc' = IF s3_bucket # "" THEN "upload_monthly" ELSE "write_local"
  /\ UNCHANGED <<inputs, cache_file, attempts, enrich_locals, result>>

WriteLocal ==
  /\ pc = "write_local"
  /\ result' = [status |-> "returned", by |-> "",
                monthly |-> "pipeline_outputs/monthly_sales_usd.csv",
                enriched |-> "pipeline_outputs/enriched_orders.csv"]
  /\ pc' = "done"
  /\ UNCHANGED <<inputs, cache_file, attempts, df, enrich_locals, monthly>>

\* upload_df_to_s3, a task with retries=2
Upload ==
  /\ pc \in {"upload_monthly", "upload_enriched"}
  /\ attempts' = 0
  /\ IF pc = "upload_monthly"
       THEN /\ pc' = "upload_enriched"
            /\ result' = [result EXCEPT
                 !.monthly = "s3://bucket/processed/monthly_sales_usd.csv"]
       ELSE /\ pc' = "done"
            /\ result' = [result EXCEPT !.status = "returned",
                 !.enriched = "s3://bucket/processed/enriched_orders.csv"]
  /\ UNCHANGED <<inputs, cache_file, df, enrich_locals, monthly>>

\* put_object raises
UploadRaises ==
  /\ pc \in {"upload_monthly", "upload_enriched"}
  /\ IF TaskEngine(TRUE, attempts, UploadRetries) = "retry"
       THEN attempts' = attempts + 1 /\ UNCHANGED <<pc, result>>
       ELSE Fail("upload_df_to_s3")
  /\ UNCHANGED <<inputs, cache_file, df, enrich_locals, monthly>>

\* The flow is invoked again on the same input with the cache file as it is.
Rerun ==
  /\ pc \in {"done", "failed"}
  /\ pc' = "extract"
  /\ attempts' = 0
  /\ df' = NoFrame
  /\ cache' = Dict(EmptyMap)
  /\ loaded' = Dict(EmptyMap)
  /\ dates' = <<>>
  /\ calls' = <<>>
  /\ saved' = "no"
  /\ monthly' = EmptyDataFrame
  /\ result' = NoResult
  /\ prev_saved' = (saved = "ok")
  /\ UNCHANGED <<str_keeps_na, orders_csv, cache_file>>

Next ==
  \/ ExtractCsv
  \/ ExtractRaises
  \/ EnrichSkip
  \/ EnrichStart
  \/ SkipCachedDate
  \/ FetchRate
  \/ EnrichFinish
  \/ Aggregate
  \/ WriteLocal
  \/ Upload
  \/ UploadRaises
  \/ Rerun

Spec == Init /\ [][Next]_vars

(***************************************************************************)
(* Properties                                                              *)
(***************************************************************************)
\* enrich_orders has returned in this run
Enriched == RATE \in df.cols
\* lines 65-93 ran to the end in this run
EnrichedByLookup == saved # "no"
\* the flow is past its try block
Aggregated ==
  \/ pc \in {"write_local", "upload_monthly", "upload_enriched", "done"}
  \/ pc = "failed" /\ result.by = "upload_df_to_s3"

Parseable(i) == orders_csv.rows[i].ts.tag = "ts"
InputDate(i) ==
  DateStr(orders_csv.rows[i].ts.y, orders_csv.rows[i].ts.m, orders_csv.rows[i].ts.d)
ValidDates == {InputDate(i) : i \in {j \in DOMAIN orders_csv.rows : Parseable(j)}}
CallsFor(d) == {i \in DOMAIN calls : calls[i].date = d}

\* C1: within one run the rate fetcher is invoked at most once for a date,
\* whatever the number of rows carrying it, and a run that follows a run which
\* wrote the cache for the same input invokes it for no date at all.
C1_FetchOncePerRun ==
  /\ \A i, j \in DOMAIN calls : calls[i].date = calls[j].date => i = j
  /\ prev_saved => calls = <<>>

\* A second run over two rows of one date has finished its lookups.
C1_Witness ==
  /\ prev_saved
  /\ EnrichedByLookup
  /\ Len(df.rows) = 2
  /\ Parseable(1) /\ Parseable(2) /\ InputDate(1) = InputDate(2)

\* C2: a row whose purchase timestamp does not parse has a null rate and a null
\* derived amount after enrich_orders, whatever the cache held and whatever the
\* fetcher answered, and its month key is missing, so that it is in no group.
C2_UnparseableRowsNull ==
  (Enriched /\ TS \in orders_csv.cols) =>
    \A i \in DOMAIN df.rows :
      ~Parseable(i) =>
        /\ df.rows[i].rate = Null
        /\ df.rows[i].usd = Null
        /\ (Aggregated => df.rows[i].month = NaT)

\* The amount column the claim names, read from the input table.
ClaimedAmount(i) ==
  IF "price" \in orders_csv.cols THEN orders_csv.rows[i].price
  ELSE IF "payment_value" \in orders_csv.cols THEN orders_csv.rows[i].payment_value
  ELSE Null

\* C3: in the enriched table payment_usd is amount x rate when the amount and
\* the rate of the row are both present and null otherwise, the amount being
\* price if the table has that column, else payment_value, else nothing.
C3_DerivedAmount ==
  Enriched =>
    \A i \in DOMAIN df.rows :
      IF ClaimedAmount(i).tag = "num" /\ df.rows[i].rate.tag = "num"
        THEN df.rows[i].usd = Num(ClaimedAmount(i).v * df.rows[i].rate.v)
        ELSE df.rows[i].usd = Null

\* A table without price whose payment_value was converted at the fetched rate.
C3_Witness ==
  /\ Enriched
  /\ "price" \notin orders_csv.cols
  /\ \E i \in DOMAIN df.rows : df.rows[i].usd = Num(15)

RowsOfMonth(y, m) ==
  {i \in DOMAIN orders_csv.rows :
     Parseable(i) /\ orders_csv.rows[i].ts.y = y /\ orders_csv.rows[i].ts.m = m}

RECURSIVE TotalUsd(_)
TotalUsd(I) ==
  IF I = {} THEN 0
  ELSE LET i == CHOOSE x \in I : TRUE
       IN (IF df.rows[i].usd.tag = "num" THEN df.rows[i].usd.v ELSE 0)
            + TotalUsd(I \ {i})

\* C4: for every month in which a row with a parseable timestamp falls, the
\* monthly table has exactly one row, and its total is the sum of payment_usd
\* over the rows of that month, a null payment_usd counting as zero.
C4_MonthlyTotals ==
  (Aggregated /\ TS \in orders_csv.cols) =>
    \A i \in DOMAIN orders_csv.rows :
      Parseable(i) =>
        LET y == orders_csv.rows[i].ts.y
            m == orders_csv.rows[i].ts.m
            hits == {r \in monthly.rows :
                       r.month = [tag |-> "period", y |-> y, m |-> m, d |-> 0]}
        IN /\ Cardinality(hits) = 1
           /\ \A r \in hits : r.monthly_sales_usd = TotalUsd(RowsOfMonth(y, m))

\* Two rows of different days of one month, one converted at the cached rate
\* and one at the fetched rate, are summed into one monthly row.
C4_Witness ==
  /\ Aggregated
  /\ Len(orders_csv.rows) = 2
  /\ Parseable(1) /\ Parseable(2) /\ InputDate(1) # InputDate(2)
  /\ \E r \in monthly.rows : r.monthly_sales_usd = 24

RowsOfDate(d) == {i \in DOMAIN df.rows : Parseable(i) /\ InputDate(i) = d}
\* the fetches of this run for dates of the input that returned None
FailedFetches == {c \in Range(calls) : c.date \in ValidDates /\ c.value = Null}

C6_NoTimestampColumn ==
  [][(pc = "enrich" /\ TS \notin df.cols) =>
       /\ cache_file' = cache_file
       /\ calls' = <<>>
       /\ loaded' = loaded /\ cache' = cache /\ saved' = "no"
       /\ df'.cols = df.cols \cup {RATE, USD}
       /\ Len(df'.rows) = Len(df.rows)
       /\ \A i \in DOMAIN df'.rows :
            /\ df'.rows[i].rate = Null /\ df'.rows[i].usd = Null
            /\ df'.rows[i].price = df.rows[i].price
            /\ df'.rows[i].payment_value = df.rows[i].payment_value]_vars

\* A table with a priced row and no timestamp column has been enriched while
\* the cache file of earlier runs exists.
C6_Witness ==
  /\ pc = "aggregate"
  /\ TS \notin df.cols
  /\ Enriched
  /\ \E i \in DOMAIN df.rows : df.rows[i].price = Num(2)
  /\ cache_file = Json(Dict(OldRates))

\* C7: whatever happens in the aggregation step, the monthly table handed to
\* the sink has exactly the two columns month and monthly_sales_usd.
C7_MonthlyWellFormed ==
  Aggregated => monthly.cols = {"month", "monthly_sales_usd"}

\* C8: once the orders table has been read, only an upload that failed after
\* its retries aborts the run; no state of the cache file does.
C8_OnlyUploadAborts ==
  (pc = "failed" /\ result.by # "extract_csv") => result.by = "upload_df_to_s3"

\* C9: a failed rate fetch is accepted as None, and stored in the cache, only
\* after the task's retries are used up (retries=2, three attempts).
C9_NoneOnlyAfterRetries ==
  \A c \in FailedFetches : c.attempts = FetchRetries + 1

\* C10: the fetcher is never invoked for a row whose timestamp did not parse,
\* and after the lookups the keys of the cache are the keys that were loaded
\* plus exactly the valid calendar dates of the input.
C10_KeysAreLoadedPlusValidDates ==
  /\ \A c \in Range(calls) : c.date \in ValidDates
  /\ EnrichedByLookup => Keys(cache) = Keys(loaded) \cup ValidDates

====
